---------------------------- MODULE Spec2Model ----------------------------
(***************************************************************************)
(* Model of the email automater's send-window scheduling.                  *)
(*                                                                         *)
(* utils/schedule_helper.py: get_allowed_date_ranges, find_current_range,  *)
(* find_next_range and get_scheduled_send_time.  Instants are wall-clock   *)
(* slots counted from 00:00 of the Monday of the first week; all the       *)
(* datetimes of one query carry the same tzinfo, so Python compares and    *)
(* subtracts them by wall clock, which is integer arithmetic here.         *)
(*                                                                         *)
(* parse_time_ranges_csv is called by send_followups.py and                *)
(* automate_emails.py and exercised by tests/test_schedule_helper.py, but  *)
(* its body is not part of utils/schedule_helper.py; it is modelled from   *)
(* the specification's section 4.1 and that test.                          *)
(***************************************************************************)
EXTENDS Integers, Sequences, FiniteSets, TLC

VARIABLES
    now,             \* the wall clock the queries read (datetime.now(tz))
    days,            \* weekdays whose rows the caller's range list keeps
    pc,              \* pc[t]: position of query t in get_scheduled_send_time
    allowed_ranges,  \* allowed_ranges[t]: the local list of (start, end)
    current_range,   \* current_range[t]: what find_current_range returned
    next_range,      \* next_range[t]: what find_next_range returned
    result,          \* result[t]: what the query returned or raised
    rows,            \* the CSV rows handed to parse_time_ranges_csv
    day_ranges,      \* the parsed weekly schedule (7 buckets)
    parsed,          \* TRUE once parse_time_ranges_csv has returned
    clock,           \* datetime.now(tz=UTC) of the follow-up code, in days
    emails,          \* the rows of table emails, in insertion order
    nops,            \* calls made so far
    last,            \* the latest FollowupManager call and what it returned
    mpc,             \* mpc[p]: position of process p in send_followups.main
    pending,         \* pending[p]: pending_followups of process p
    idx,             \* idx[p]: the pending follow-up process p handles next
    should_schedule, \* should_schedule[p] of send_followups.main
    events,          \* events[p]: the calls main made, in order
    ss,              \* the latest call of automate_emails.schedule_send
    ss_args,         \* what that call was given
    crontab,         \* the user's crontab, line by line
    cron,            \* cron[p]: the call of setup_cron_job by process p
    ncalls,          \* calls of setup_cron_job so far
    tracking,        \* tracking[p]: the call of track_email process p is in
    ga_in,           \* what get_arg_or_env is called with
    ga_out           \* what it returned or raised

schedVars == <<now, days, pc, allowed_ranges, current_range, next_range, result>>
parseVars == <<rows, day_ranges, parsed>>
followVars == <<clock, emails, nops, last, mpc, pending, idx, should_schedule, events>>
sendVars == <<ss, ss_args>>
cronVars == <<crontab, cron, ncalls>>
trackVars == <<tracking>>
argVars == <<ga_in, ga_out>>
vars == <<schedVars, parseVars, followVars, sendVars, cronVars, trackVars, argVars>>

---------------------------------------------------------------------------
(* Bounds of the model *)

\* slots per half hour: 1 gives 48 slots a day
SlotsPerHalfHour == 1

\* longest CSV input handed to the parser
MaxRows == 2

\* days the follow-up clock runs
MaxClock == 2

\* FollowupManager calls and main steps in one behaviour
MaxOps == 4

\* lines of the crontab before the first call
MaxCronLines == 2

\* calls of setup_cron_job in one behaviour
MaxCalls == 3

---------------------------------------------------------------------------
(* Time *)

DayLen == 48 * SlotsPerHalfHour

\* datetime.replace(hour=h, minute=m) on a midnight: the offset of h:m
TimeOfDay(h, m) == ((h * 60 + m) \div 30) * SlotsPerHalfHour

\* datetime.weekday(): 0 = Monday .. 6 = Sunday
weekday(t) == (t \div DayLen) % 7

\* datetime.date(), as a day number
date(t) == t \div DayLen

\* datetime.time(), as the offset into the day
time_of_day(t) == t % DayLen

\* the instants of the first week, one per slot
Instants == 0 .. (7 * DayLen - 1)

Threads == {1, 2}

Min(S) == CHOOSE x \in S : \A y \in S : x <= y

---------------------------------------------------------------------------
(* utils/schedule_helper.py *)

MorningStartHour == 10
MorningEndHour == 11
AfternoonHour == 14
AfternoonEndMinute == 30
WeeksGenerated == 2
DaysGenerated == 4
FridayOffset == 4

\* lines 41-52: the two ranges of each of Monday..Thursday of one week
WeekRanges(week_start) ==
    [i \in 1 .. (2 * DaysGenerated) |->
        LET day_offset == (i - 1) \div 2
            day_start == week_start + day_offset * DayLen
        IN  IF i % 2 = 1
            THEN <<day_start + TimeOfDay(MorningStartHour, 0),
                   day_start + TimeOfDay(MorningEndHour, 0)>>
            ELSE <<day_start + TimeOfDay(AfternoonHour, 0),
                   day_start + TimeOfDay(AfternoonHour, AfternoonEndMinute)>>]

RECURSIVE AllWeeks(_, _, _)
AllWeeks(monday, week_offset, weeks) ==
    IF week_offset >= weeks THEN <<>>
    ELSE WeekRanges(monday + 7 * week_offset * DayLen)
            \o AllWeeks(monday, week_offset + 1, weeks)

\* variants of the definitions below, each with one plausible slip; the
\* claims are checked to tell them from the code
OneWeekOnly(n) ==
    LET monday == n - weekday(n) * DayLen - time_of_day(n)
        friday == monday + FridayOffset * DayLen
    IN  AllWeeks(monday, 0, 1)
            \o <<  <<friday + TimeOfDay(MorningStartHour, 0),
                     friday + TimeOfDay(MorningEndHour, 0)>>  >>

NoFridayRange(n) ==
    LET monday == n - weekday(n) * DayLen - time_of_day(n)
    IN  AllWeeks(monday, 0, WeeksGenerated)

get_allowed_date_ranges(n) ==
    LET days_since_monday == weekday(n)
        monday == n - days_since_monday * DayLen - time_of_day(n)
        friday == monday + FridayOffset * DayLen
    IN  AllWeeks(monday, 0, WeeksGenerated)
            \o <<  <<friday + TimeOfDay(MorningStartHour, 0),
                     friday + TimeOfDay(MorningEndHour, 0)>>  >>

None == <<>>

StartExclusive(n, ranges) ==
    LET hits == {i \in 1 .. Len(ranges) : ranges[i][1] < n /\ n < ranges[i][2]}
    IN  IF hits = {} THEN None ELSE ranges[Min(hits)]

EndInclusive(n, ranges) ==
    LET hits == {i \in 1 .. Len(ranges) : ranges[i][1] <= n /\ n <= ranges[i][2]}
    IN  IF hits = {} THEN None ELSE ranges[Min(hits)]

\* lines 78-81: the first range of the list with start <= now < end
find_current_range(n, ranges) ==
    LET hits == {i \in 1 .. Len(ranges) : ranges[i][1] <= n /\ n < ranges[i][2]}
    IN  IF hits = {} THEN None ELSE ranges[Min(hits)]

\* list.sort(key=lambda x: x[0]): a stable sort by start
RECURSIVE SortByStart(_)
SortByStart(s) ==
    IF Len(s) <= 1 THEN s
    ELSE LET m == Min({s[i][1] : i \in 1 .. Len(s)})
             k == Min({i \in 1 .. Len(s) : s[i][1] = m})
             rest == [j \in 1 .. (Len(s) - 1) |-> IF j < k THEN s[j] ELSE s[j + 1]]
         IN  <<s[k]>> \o SortByStart(rest)

FutureRanges(n, ranges) ==
    LET IsFuture(r) == r[1] > n
    IN  SelectSeq(ranges, IsFuture)

NextUnsorted(n, ranges) ==
    LET future_ranges == FutureRanges(n, ranges)
    IN  [allowed_ranges |-> ranges,
         raised |-> Len(future_ranges) = 0,
         range |-> IF Len(future_ranges) = 0 THEN None ELSE future_ranges[1]]

NextLatest(n, ranges) ==
    LET future_ranges == SortByStart(FutureRanges(n, ranges))
    IN  [allowed_ranges |-> ranges,
         raised |-> Len(future_ranges) = 0,
         range |-> IF Len(future_ranges) = 0 THEN None
                   ELSE future_ranges[Len(future_ranges)]]

NextIncludesPast(n, ranges) ==
    LET future_ranges == SortByStart(ranges)
    IN  [allowed_ranges |-> ranges,
         raised |-> Len(future_ranges) = 0,
         range |-> IF Len(future_ranges) = 0 THEN None ELSE future_ranges[1]]

NextSortsInPlace(n, ranges) ==
    LET future_ranges == SortByStart(FutureRanges(n, ranges))
    IN  [allowed_ranges |-> SortByStart(ranges),
         raised |-> Len(future_ranges) = 0,
         range |-> IF Len(future_ranges) = 0 THEN None ELSE future_ranges[1]]

\* lines 99-102: the earliest range starting after now; future_ranges is a
\* new list, so the caller's list is left as it was; indexing an empty
\* future_ranges raises IndexError
find_next_range(n, ranges) ==
    LET future_ranges == SortByStart(FutureRanges(n, ranges))
    IN  [allowed_ranges |-> ranges,
         raised |-> Len(future_ranges) = 0,
         range |-> IF Len(future_ranges) = 0 THEN None ELSE future_ranges[1]]

\* lines 135-136: random.randint(0, range_seconds), both ends included
Jitter(r) == 0 .. (r[2] - r[1])

Pending == [kind |-> "pending", at |-> 0]
SendNow == [kind |-> "True", at |-> 0]
NoWindowAvailable == [kind |-> "False", at |-> 0]
IndexError == [kind |-> "IndexError", at |-> 0]
SendAt(t) == [kind |-> "datetime", at |-> t]

SchedInit ==
    /\ now \in Instants
    /\ pc = [t \in Threads |-> "idle"]
    /\ allowed_ranges = [t \in Threads |-> <<>>]
    /\ current_range = [t \in Threads |-> None]
    /\ next_range = [t \in Threads |-> None]
    /\ result = [t \in Threads |-> Pending]

\* lines 117-121: read the clock and build the list of allowed ranges
Enter(t) ==
    /\ pc[t] = "idle"
    /\ allowed_ranges' = [allowed_ranges EXCEPT ![t] = get_allowed_date_ranges(now)]
    /\ pc' = [pc EXCEPT ![t] = "find_current"]
    /\ UNCHANGED <<now, days, current_range, next_range, result>>

\* lines 124-129: in a range now: return True
FindCurrent(t) ==
    /\ pc[t] = "find_current"
    /\ LET cr == find_current_range(now, allowed_ranges[t])
       IN  /\ current_range' = [current_range EXCEPT ![t] = cr]
           /\ IF cr # None
              THEN /\ result' = [result EXCEPT ![t] = SendNow]
                   /\ pc' = [pc EXCEPT ![t] = "done"]
              ELSE /\ pc' = [pc EXCEPT ![t] = "find_next"]
                   /\ UNCHANGED result
    /\ UNCHANGED <<now, days, allowed_ranges, next_range>>

\* lines 131-137: a random instant of the next range
FindNext(t) ==
    /\ pc[t] = "find_next"
    /\ LET nr == find_next_range(now, allowed_ranges[t])
       IN  /\ allowed_ranges' = [allowed_ranges EXCEPT ![t] = nr.allowed_ranges]
           /\ next_range' = [next_range EXCEPT ![t] = nr.range]
           /\ IF nr.raised
              THEN result' = [result EXCEPT ![t] = IndexError]
              ELSE \E random_seconds \in Jitter(nr.range) :
                      result' = [result EXCEPT ![t] = SendAt(nr.range[1] + random_seconds)]
    /\ pc' = [pc EXCEPT ![t] = "done"]
    /\ UNCHANGED <<now, days, current_range>>

---------------------------------------------------------------------------
(* Schedules other than the built-in one.  send_followups.py and           *)
(* automate_emails.py read the schedule from a CSV and hand it to the      *)
(* query, while get_scheduled_send_time builds the ranges itself; the      *)
(* steps after line 121 work on whatever list of ranges they are given.    *)
(* EnterWith gives them the built-in ranges of a set of weekdays: every    *)
(* subset of Monday..Thursday (the empty one is a CSV without rows) and    *)
(* the whole shipped week.                                                 *)

ShippedDays == 0 .. 4

DaySets == (SUBSET (0 .. (DaysGenerated - 1))) \cup {ShippedDays}

KeepDays(ranges, ds) ==
    LET Kept(r) == weekday(r[1]) \in ds
    IN  SelectSeq(ranges, Kept)

\* the entry of the query with the ranges of the caller's schedule
EnterWith(t) ==
    /\ pc[t] = "idle"
    /\ allowed_ranges' =
          [allowed_ranges EXCEPT ![t] = KeepDays(get_allowed_date_ranges(now), days)]
    /\ pc' = [pc EXCEPT ![t] = "find_current"]
    /\ UNCHANGED <<now, days, current_range, next_range, result>>

---------------------------------------------------------------------------
(* parse_time_ranges_csv *)

\* a character of a CSV field as the digit it writes
Digit(c) ==
    CASE c = "0" -> 0 [] c = "1" -> 1 [] c = "2" -> 2 [] c = "3" -> 3
      [] c = "4" -> 4 [] c = "5" -> 5 [] c = "6" -> 6 [] c = "7" -> 7
      [] c = "8" -> 8 [] c = "9" -> 9

\* str.strip() of the leading blanks the CSV leaves after a comma
RECURSIVE Strip(_)
Strip(s) == IF Len(s) > 0 /\ Head(s) = " " THEN Strip(Tail(s)) ELSE s

\* int(row["DAY"]) of a one-digit field
ParseDay(s) == Digit(Strip(s)[1])

\* an "HH:MM" field as the datetime.time it denotes
ParseTime(s) ==
    LET f == Strip(s)
    IN  [hour |-> 10 * Digit(f[1]) + Digit(f[2]),
         minute |-> 10 * Digit(f[4]) + Digit(f[5])]

\* datetime.time ordering
TimeKey(tm) == tm.hour * 60 + tm.minute

\* a day's list sorted ascending by start time (stable)
RECURSIVE SortDay(_)
SortDay(s) ==
    IF Len(s) <= 1 THEN s
    ELSE LET m == Min({TimeKey(s[i][1]) : i \in 1 .. Len(s)})
             k == Min({i \in 1 .. Len(s) : TimeKey(s[i][1]) = m})
             rest == [j \in 1 .. (Len(s) - 1) |-> IF j < k THEN s[j] ELSE s[j + 1]]
         IN  <<s[k]>> \o SortDay(rest)

\* the rows of one day index, as (start, end) pairs in input order
RECURSIVE RowsOfDay(_, _)
RowsOfDay(rs, d) ==
    IF rs = <<>> THEN <<>>
    ELSE LET row == Head(rs)
             here == IF ParseDay(row.DAY) = d
                     THEN << <<ParseTime(row.START_TIME), ParseTime(row.END_TIME)>> >>
                     ELSE <<>>
         IN  here \o RowsOfDay(Tail(rs), d)

ParseUnsorted(rs) == [i \in 1 .. 7 |-> RowsOfDay(rs, i - 1)]

\* seven buckets, Monday first, each sorted by start time
parse_time_ranges_csv(rs) == [i \in 1 .. 7 |-> SortDay(RowsOfDay(rs, i - 1))]

\* the fields the parser is fed: day indices and HH:MM pairs as the CSV
\* writes them, the last pair with the blank that follows a comma
DayFields == {<<"0">>, <<"1">>, <<"6">>}

TimeFields ==
    { << <<"0", "9", ":", "0", "0">>, <<"1", "2", ":", "0", "0">> >>,
      << <<"1", "3", ":", "0", "0">>, <<"1", "5", ":", "0", "0">> >>,
      << <<" ", "1", "0", ":", "0", "0">>, <<" ", "1", "4", ":", "3", "0">> >> }

Rows == {[DAY |-> d, START_TIME |-> p[1], END_TIME |-> p[2]] :
            d \in DayFields, p \in TimeFields}

RowInputs == UNION {[1 .. n -> Rows] : n \in 0 .. MaxRows}

ParseIdle ==
    /\ rows = <<>>
    /\ day_ranges = <<>>
    /\ parsed = FALSE

ParseInit ==
    /\ rows \in RowInputs
    /\ day_ranges = <<>>
    /\ parsed = FALSE

Parse ==
    /\ ~parsed
    /\ day_ranges' = parse_time_ranges_csv(rows)
    /\ parsed' = TRUE
    /\ UNCHANGED rows

\* the queries at rest, for the specifications that do not run them
SchedIdle ==
    /\ now = 0
    /\ days = ShippedDays
    /\ pc = [t \in Threads |-> "idle"]
    /\ allowed_ranges = [t \in Threads |-> <<>>]
    /\ current_range = [t \in Threads |-> None]
    /\ next_range = [t \in Threads |-> None]
    /\ result = [t \in Threads |-> Pending]

---------------------------------------------------------------------------
(* utils/followup.py: FollowupManager over the table emails *)

Recruiters == {"a@x.com", "b@y.com"}

Procs == {1, 2}

\* the arguments of track_email other than recruiter_email; the two
\* differ in every field
TrackArgs ==
    { [recruiter_name |-> "Ann", recruiter_company |-> "X", thread_id |-> "t1",
       followup_wait_days |-> 1, max_followups |-> 1, timezone |-> "UTC"],
      [recruiter_name |-> "Bob", recruiter_company |-> "Y", thread_id |-> "t2",
       followup_wait_days |-> 2, max_followups |-> 2, timezone |-> "America/Los_Angeles"] }

NoCall == [op |-> "none"]

\* the indices of the rows WHERE recruiter_email = ?
RowsOf(table, recruiter_email) ==
    {i \in DOMAIN table : table[i].recruiter_email = recruiter_email}

\* lines 97-117: the row track_email inserts
NewRow(recruiter_email, a, t) ==
    [recruiter_email |-> recruiter_email,
     recruiter_name |-> a.recruiter_name,
     recruiter_company |-> a.recruiter_company,
     thread_id |-> a.thread_id,
     followup_count |-> 0,
     next_followup |-> t + a.followup_wait_days,
     max_followups |-> a.max_followups,
     followup_wait_days |-> a.followup_wait_days,
     timezone |-> a.timezone]

TrackOverwrites(table, recruiter_email, a, t) ==
    IF RowsOf(table, recruiter_email) # {}
    THEN [i \in DOMAIN table |->
            IF table[i].recruiter_email = recruiter_email
            THEN NewRow(recruiter_email, a, t) ELSE table[i]]
    ELSE Append(table, NewRow(recruiter_email, a, t))

TrackStartsAtOne(table, recruiter_email, a, t) ==
    IF RowsOf(table, recruiter_email) # {}
    THEN table
    ELSE Append(table, [NewRow(recruiter_email, a, t) EXCEPT !.followup_count = 1])

\* lines 77-118: insert the row unless the address is tracked already
track_email(table, recruiter_email, a, t) ==
    IF RowsOf(table, recruiter_email) # {}
    THEN table
    ELSE Append(table, NewRow(recruiter_email, a, t))

PendingIgnoresMax(table, t) ==
    LET Due(row) == row.next_followup <= t
    IN  SelectSeq(table, Due)

\* lines 129-140: the rows due now that have follow-ups left; the ISO
\* strings of UTC instants order as the instants do
get_pending_followups(table, t) ==
    LET Due(row) == row.next_followup <= t /\ row.followup_count < row.max_followups
    IN  SelectSeq(table, Due)

UpdateKeepsDate(table, recruiter_email, t) ==
    LET hit == RowsOf(table, recruiter_email)
    IN  IF hit = {} THEN [emails |-> table, warnings |-> 1]
        ELSE [emails |-> [i \in DOMAIN table |->
                            IF i \in hit
                            THEN [table[i] EXCEPT !.followup_count = @ + 1]
                            ELSE table[i]],
              warnings |-> 0]

UpdateInsertsMissing(table, recruiter_email, t) ==
    LET hit == RowsOf(table, recruiter_email)
    IN  IF hit = {}
        THEN [emails |-> Append(table,
                  [recruiter_email |-> recruiter_email, recruiter_name |-> "",
                   recruiter_company |-> "", thread_id |-> "", followup_count |-> 1,
                   next_followup |-> t, max_followups |-> 2,
                   followup_wait_days |-> 3, timezone |-> "UTC"]),
              warnings |-> 1]
        ELSE [emails |-> [i \in DOMAIN table |->
                            IF i \in hit
                            THEN [table[i] EXCEPT
                                    !.followup_count = @ + 1,
                                    !.next_followup = t + table[Min(hit)].followup_wait_days]
                            ELSE table[i]],
              warnings |-> 0]

\* lines 153-185: one follow-up more and the next one followup_wait_days
\* (of the row fetched) from now; a warning and nothing else when the
\* address is not tracked
update_followup_status(table, recruiter_email, t) ==
    LET hit == RowsOf(table, recruiter_email)
    IN  IF hit = {} THEN [emails |-> table, warnings |-> 1]
        ELSE [emails |-> [i \in DOMAIN table |->
                            IF i \in hit
                            THEN [table[i] EXCEPT
                                    !.followup_count = @ + 1,
                                    !.next_followup = t + table[Min(hit)].followup_wait_days]
                            ELSE table[i]],
              warnings |-> 0]

\* lines 198-204: the row of the address, or None
get_email_status(table, recruiter_email) ==
    LET hit == RowsOf(table, recruiter_email)
    IN  IF hit = {} THEN [kind |-> "None"] ELSE [kind |-> "dict", row |-> table[Min(hit)]]

\* _init_db on a new file: the table exists and is empty
FollowInit ==
    /\ clock = 0
    /\ emails = <<>>
    /\ nops = 0
    /\ last = NoCall
    /\ mpc = [p \in Procs |-> "idle"]
    /\ pending = [p \in Procs |-> <<>>]
    /\ idx = [p \in Procs |-> 0]
    /\ should_schedule = [p \in Procs |-> FALSE]
    /\ events = [p \in Procs |-> <<>>]

\* a day passes
Tick ==
    /\ clock < MaxClock
    /\ clock' = clock + 1
    /\ UNCHANGED <<emails, nops, last, mpc, pending, idx, should_schedule, events>>

TrackEmail(recruiter_email, a) ==
    /\ nops < MaxOps
    /\ nops' = nops + 1
    /\ emails' = track_email(emails, recruiter_email, a, clock)
    /\ last' = [op |-> "track_email", recruiter_email |-> recruiter_email, args |-> a,
                at |-> clock, table |-> emails]
    /\ UNCHANGED <<clock, mpc, pending, idx, should_schedule, events>>

GetPendingFollowups ==
    /\ nops < MaxOps
    /\ nops' = nops + 1
    /\ last' = [op |-> "get_pending_followups", at |-> clock,
                ret |-> get_pending_followups(emails, clock)]
    /\ UNCHANGED <<clock, emails, mpc, pending, idx, should_schedule, events>>

UpdateFollowupStatus(recruiter_email) ==
    /\ nops < MaxOps
    /\ nops' = nops + 1
    /\ LET u == update_followup_status(emails, recruiter_email, clock)
       IN  /\ emails' = u.emails
           /\ last' = [op |-> "update_followup_status", recruiter_email |-> recruiter_email,
                       at |-> clock, table |-> emails, warnings |-> u.warnings,
                       returned |-> TRUE]
    /\ UNCHANGED <<clock, mpc, pending, idx, should_schedule, events>>

GetEmailStatus(recruiter_email) ==
    /\ nops < MaxOps
    /\ nops' = nops + 1
    /\ last' = [op |-> "get_email_status", recruiter_email |-> recruiter_email,
                ret |-> get_email_status(emails, recruiter_email)]
    /\ UNCHANGED <<clock, emails, mpc, pending, idx, should_schedule, events>>

---------------------------------------------------------------------------
(* send_followups.py: main *)

\* what get_scheduled_send_time hands a caller (-> datetime | bool)
SendTimes == {"True", "datetime", "False"}

\* GmailAPI.save_draft and send_now: the dict, or False on an HttpError
GmailOutcomes == {"dict", "False"}

\* schedule_send_later: True, False when the response is not ok, or the
\* exception of requests.post
StreakOutcomes == {"True", "False", "RequestException"}

UpdateStatusCall == <<"update_followup_status", "None">>

UpdatesTwice(schedule, send_time, draft, sent, streak) ==
    IF ~schedule
    THEN [calls |-> <<<<"save_draft", draft>>, UpdateStatusCall, UpdateStatusCall>>,
          raised |-> FALSE]
    ELSE IF send_time = "True"
    THEN [calls |-> <<<<"get_scheduled_send_time", send_time>>,
                      <<"send_now", sent>>, UpdateStatusCall, UpdateStatusCall>>,
          raised |-> FALSE]
    ELSE [calls |-> <<<<"get_scheduled_send_time", send_time>>,
                      <<"logger.error", "Failed to schedule follow-up email">>>>,
          raised |-> FALSE]

\* lines 187-214: the calls one pass of the loop makes, in order, and
\* whether an exception ended it. draft["message"] on the False of a failed
\* save_draft is a TypeError; an exception of schedule_send_later is not
\* caught
process_followup(schedule, send_time, draft, sent, streak) ==
    IF ~schedule
    THEN [calls |-> <<<<"save_draft", draft>>, UpdateStatusCall>>, raised |-> FALSE]
    ELSE IF send_time = "True"
    THEN [calls |-> <<<<"get_scheduled_send_time", send_time>>,
                      <<"send_now", sent>>, UpdateStatusCall>>,
          raised |-> FALSE]
    ELSE IF send_time = "datetime"
    THEN IF draft = "False"
         THEN [calls |-> <<<<"get_scheduled_send_time", send_time>>,
                           <<"save_draft", draft>>>>,
               raised |-> TRUE]
         ELSE IF streak = "RequestException"
         THEN [calls |-> <<<<"get_scheduled_send_time", send_time>>,
                           <<"save_draft", draft>>,
                           <<"schedule_send_later", streak>>>>,
               raised |-> TRUE]
         ELSE [calls |-> <<<<"get_scheduled_send_time", send_time>>,
                           <<"save_draft", draft>>,
                           <<"schedule_send_later", streak>>, UpdateStatusCall>>,
               raised |-> FALSE]
    ELSE [calls |-> <<<<"get_scheduled_send_time", send_time>>,
                      <<"logger.error", "Failed to schedule follow-up email">>>>,
          raised |-> FALSE]

\* the table after the update_followup_status calls among calls
RECURSIVE Updated(_, _, _, _)
Updated(table, recruiter_email, t, calls) ==
    IF calls = <<>> THEN table
    ELSE Updated(IF Head(calls) = UpdateStatusCall
                 THEN update_followup_status(table, recruiter_email, t).emails
                 ELSE table,
                 recruiter_email, t, Tail(calls))

\* lines 112-159: main up to the loop
MainStart(p, template_exists, schedule) ==
    /\ mpc[p] \in {"idle", "returned", "done"}
    /\ nops < MaxOps
    /\ nops' = nops + 1
    /\ LET pending_followups == get_pending_followups(emails, clock)
       IN  /\ pending' = [pending EXCEPT ![p] = pending_followups]
           /\ IF pending_followups = <<>>
              THEN /\ mpc' = [mpc EXCEPT ![p] = "returned"]
                   /\ events' = [events EXCEPT ![p] =
                                   <<<<"", "logger.info", "No pending follow-ups found">>>>]
                   /\ UNCHANGED <<idx, should_schedule>>
              ELSE IF ~template_exists
              THEN /\ mpc' = [mpc EXCEPT ![p] = "exited"]
                   /\ events' = [events EXCEPT ![p] = <<<<"", "sys.exit", "1">>>>]
                   /\ UNCHANGED <<idx, should_schedule>>
              ELSE /\ mpc' = [mpc EXCEPT ![p] = "loop"]
                   /\ events' = [events EXCEPT ![p] = <<>>]
                   /\ idx' = [idx EXCEPT ![p] = 1]
                   /\ should_schedule' = [should_schedule EXCEPT ![p] = schedule]
    /\ UNCHANGED <<clock, emails, last>>

\* lines 162-214: one pass of the loop
MainItem(p, send_time, draft, sent, streak) ==
    /\ mpc[p] = "loop"
    /\ LET recruiter_email == pending[p][idx[p]].recruiter_email
           r == process_followup(should_schedule[p], send_time, draft, sent, streak)
           hit == {i \in DOMAIN r.calls : r.calls[i] = UpdateStatusCall}
       IN  /\ emails' = Updated(emails, recruiter_email, clock, r.calls)
           /\ events' = [events EXCEPT ![p] =
                           @ \o [i \in DOMAIN r.calls |->
                                   <<recruiter_email, r.calls[i][1], r.calls[i][2]>>]]
           /\ last' = IF hit = {} THEN last
                      ELSE [op |-> "update_followup_status",
                            recruiter_email |-> recruiter_email, at |-> clock,
                            table |-> emails,
                            warnings |-> update_followup_status(emails, recruiter_email, clock).warnings,
                            returned |-> TRUE]
           /\ mpc' = [mpc EXCEPT ![p] =
                        IF r.raised THEN "raised"
                        ELSE IF idx[p] = Len(pending[p]) THEN "done" ELSE "loop"]
    /\ idx' = [idx EXCEPT ![p] = @ + 1]
    /\ nops' = nops + 1
    /\ UNCHANGED <<clock, pending, should_schedule>>

\* the follow-up code at rest, for the specifications that do not run it
FollowIdle == FollowInit

---------------------------------------------------------------------------
(* automate_emails.py: schedule_send, and utils/streak.py *)

\* streak.py lines 60-86: the request made with send_date and what comes
\* back (streak: response.ok is True or False, or requests.post raised).
\* A send_date that is no datetime has no astimezone. The exception of
\* requests.post is not caught
schedule_send_later(send_date, streak) ==
    IF send_date = [kind |-> "bool", value |-> "False"]
    THEN [calls |-> <<>>, ret |-> "AttributeError"]
    ELSE IF streak = "RequestException"
    THEN [calls |-> <<<<"requests.post", send_date, streak>>>>, ret |-> "RequestException"]
    ELSE IF streak = "False"
    THEN [calls |-> <<<<"requests.post", send_date, streak>>,
                      <<"logger.error", "Failed to schedule email to be sent later">>>>,
          ret |-> "False"]
    ELSE [calls |-> <<<<"requests.post", send_date, streak>>>>, ret |-> "True"]

\* the datetime the resolver computed, and the one schedule_send computes
ResolverDatetime == [kind |-> "datetime", from |-> "get_scheduled_send_time", minutes |-> 0]

SendNowSendsNow(token, csv_path, exists, send_time, draft, streak) ==
    IF ~token
    THEN [calls |-> <<<<"logger.error", "Scheduling error: No streak token provided.">>>>,
          ret |-> "False"]
    ELSE IF ~csv_path
    THEN [calls |-> <<<<"logger.error", "Scheduling error: No schedule csv file provided.">>>>,
          ret |-> "False"]
    ELSE IF ~exists
    THEN [calls |-> <<<<"logger.error", "Scheduling Error: No schedule csv file found.">>>>,
          ret |-> "False"]
    ELSE LET asked == <<<<"get_scheduled_send_time", send_time>>>>
         IN  IF send_time = "True"
             THEN [calls |-> asked \o <<<<"send_now", draft>>>>, ret |-> "True"]
             ELSE IF draft = "False"
             THEN [calls |-> asked, ret |-> "TypeError"]
             ELSE LET send_date == IF send_time = "datetime" THEN ResolverDatetime
                                   ELSE [kind |-> "bool", value |-> send_time]
                      later == schedule_send_later(send_date, streak)
                  IN  [calls |-> asked \o <<<<"schedule_send_later", send_date>>>> \o later.calls,
                       ret |-> later.ret]

ResolverAskedFirst(token, csv_path, exists, send_time, draft, streak) ==
    LET asked == <<<<"get_scheduled_send_time", send_time>>>>
    IN  IF ~token
        THEN [calls |-> asked \o <<<<"logger.error", "Scheduling error: No streak token provided.">>>>,
              ret |-> "False"]
        ELSE IF ~csv_path
        THEN [calls |-> asked \o <<<<"logger.error", "Scheduling error: No schedule csv file provided.">>>>,
              ret |-> "False"]
        ELSE IF ~exists
        THEN [calls |-> asked \o <<<<"logger.error", "Scheduling Error: No schedule csv file found.">>>>,
              ret |-> "False"]
        ELSE IF draft = "False"
        THEN [calls |-> asked, ret |-> "TypeError"]
        ELSE LET send_date ==
                     IF send_time = "True"
                     THEN [kind |-> "datetime", from |-> "now", minutes |-> 10]
                     ELSE IF send_time = "datetime" THEN ResolverDatetime
                     ELSE [kind |-> "bool", value |-> send_time]
                 later == schedule_send_later(send_date, streak)
             IN  [calls |-> asked \o <<<<"schedule_send_later", send_date>>>> \o later.calls,
                  ret |-> later.ret]

\* lines 227-263: the calls schedule_send makes, in order, and what it
\* returns or raises. On True the send time becomes now plus 10 minutes and
\* is scheduled like any other; draft["message"] on the False of a failed
\* save_draft is a TypeError
schedule_send(token, csv_path, exists, send_time, draft, streak) ==
    IF ~token
    THEN [calls |-> <<<<"logger.error", "Scheduling error: No streak token provided.">>>>,
          ret |-> "False"]
    ELSE IF ~csv_path
    THEN [calls |-> <<<<"logger.error", "Scheduling error: No schedule csv file provided.">>>>,
          ret |-> "False"]
    ELSE IF ~exists
    THEN [calls |-> <<<<"logger.error", "Scheduling Error: No schedule csv file found.">>>>,
          ret |-> "False"]
    ELSE LET asked == <<<<"get_scheduled_send_time", send_time>>>>
         IN  IF draft = "False"
             THEN [calls |-> asked, ret |-> "TypeError"]
             ELSE LET send_date ==
                          IF send_time = "True"
                          THEN [kind |-> "datetime", from |-> "now", minutes |-> 10]
                          ELSE IF send_time = "datetime" THEN ResolverDatetime
                          ELSE [kind |-> "bool", value |-> send_time]
                      later == schedule_send_later(send_date, streak)
                  IN  [calls |-> asked \o <<<<"schedule_send_later", send_date>>>> \o later.calls,
                       ret |-> later.ret]

SendInit ==
    /\ ss = [calls |-> <<>>, ret |-> "none"]
    /\ ss_args = [streak_token |-> FALSE, csv_path |-> FALSE, exists |-> FALSE]

\* automate_emails.py line 362: the script calls schedule_send once
ScheduleSend(token, csv_path, exists, send_time, draft, streak) ==
    /\ ss.ret = "none"
    /\ ss' = schedule_send(token, csv_path, exists, send_time, draft, streak)
    /\ ss_args' = [streak_token |-> token, csv_path |-> csv_path, exists |-> exists]

\* schedule_send not called, for the specifications that do not run it
SendIdle == SendInit

---------------------------------------------------------------------------
(* utils/cron_setup.py: setup_cron_job *)

\* a line of the crontab: an entry of the user's, the follow-up line, or a
\* line the follow-up line is the end of (the line commented out, say)
CronLines == {"other", "cron_line", "#cron_line"}

\* cron_line occurs in the text of this line
HasCronLine(line) == line \in {"cron_line", "#cron_line"}

\* how often cron_line occurs in a crontab
Occurrences(text) == Cardinality({i \in DOMAIN text : HasCronLine(text[i])})

NeverExists(existing_crontab) == FALSE

\* line 59: cron_line in existing_crontab
job_exists(existing_crontab) ==
    \E i \in DOMAIN existing_crontab : HasCronLine(existing_crontab[i])

\* line 64
new_crontab(existing_crontab) == Append(existing_crontab, "cron_line")

Systems == {"Darwin", "Linux", "Windows"}

\* the crontabs a user may have before the first call, the follow-up line
\* in them at most once
Crontabs ==
    {text \in UNION {[1 .. n -> CronLines] : n \in 0 .. MaxCronLines} :
       Occurrences(text) <= 1}

CronIdleCall == [pc |-> "idle", existing_crontab |-> <<>>, ret |-> "none", writes |-> 0]

CronInit ==
    /\ crontab \in Crontabs
    /\ cron = [p \in Procs |-> CronIdleCall]
    /\ ncalls = 0

\* lines 23-56: the platform, the chmod and the listing of the crontab
CronList(p, system, chmod_ok, listed) ==
    /\ cron[p].pc \in {"idle", "done"}
    /\ ncalls < MaxCalls
    /\ ncalls' = ncalls + 1
    /\ cron' = [cron EXCEPT ![p] =
                  IF system \notin {"Darwin", "Linux"} \/ ~chmod_ok
                  THEN [pc |-> "done", existing_crontab |-> <<>>, ret |-> "False",
                        writes |-> 0]
                  ELSE [pc |-> "listed",
                        existing_crontab |-> IF listed THEN crontab ELSE <<>>,
                        ret |-> "none", writes |-> 0]]
    /\ UNCHANGED crontab

\* lines 58-82: nothing to do, or the crontab is written
CronWrite(p, written) ==
    /\ cron[p].pc = "listed"
    /\ IF job_exists(cron[p].existing_crontab)
       THEN /\ cron' = [cron EXCEPT ![p].pc = "done", ![p].ret = "True"]
            /\ UNCHANGED crontab
       ELSE IF written = "0"
       THEN /\ crontab' = new_crontab(cron[p].existing_crontab)
            /\ cron' = [cron EXCEPT ![p].pc = "done", ![p].ret = "True",
                                    ![p].writes = 1]
       ELSE /\ cron' = [cron EXCEPT ![p].pc = "done", ![p].ret = "False"]
            /\ UNCHANGED crontab
    /\ UNCHANGED ncalls

\* what crontab - ends with: return code 0, another one, or an exception
WriteOutcomes == {"0", "1", "Exception"}

\* setup_cron_job not called, on an empty crontab
CronIdle ==
    /\ crontab = <<>>
    /\ cron = [p \in Procs |-> CronIdleCall]
    /\ ncalls = 0

---------------------------------------------------------------------------
(* utils/email_args.py: get_arg_or_env *)

\* a str | None: None, or a string, the empty one included
NoneValue == [is |-> "None"]

Str(v) == [is |-> "str", value |-> v]

ArgValues == {NoneValue, Str(""), Str("from the command line"), Str("same")}

\* os.getenv: None when the variable is not set
EnvValues == {NoneValue, Str(""), Str("from the environment"), Str("same")}

DefaultValues == {NoneValue, Str("the default"), Str("same")}

EnvOverArg(arg_value, env, required, default) ==
    IF env # NoneValue THEN [ret |-> env]
    ELSE IF arg_value # NoneValue THEN [ret |-> arg_value]
    ELSE IF required THEN [raised |-> "ValueError"]
    ELSE [ret |-> default]

\* lines 61-69, env being os.getenv(env_var.value)
get_arg_or_env(arg_value, env, required, default) ==
    IF arg_value # NoneValue THEN [ret |-> arg_value]
    ELSE IF env # NoneValue THEN [ret |-> env]
    ELSE IF required THEN [raised |-> "ValueError"]
    ELSE [ret |-> default]

NotCalled == [called |-> FALSE]

ArgInit ==
    /\ ga_in \in [arg_value : ArgValues, env : EnvValues,
                  required : BOOLEAN, default : DefaultValues]
    /\ ga_out = NotCalled

GetArgOrEnv ==
    /\ ga_out = NotCalled
    /\ ga_out' = get_arg_or_env(ga_in.arg_value, ga_in.env, ga_in.required, ga_in.default)
    /\ UNCHANGED ga_in

\* get_arg_or_env not called
ArgIdle ==
    /\ ga_in = [arg_value |-> NoneValue, env |-> NoneValue,
                required |-> FALSE, default |-> NoneValue]
    /\ ga_out = NotCalled

\* no track_email call under way
TrackIdle == tracking = [p \in Procs |-> [pc |-> "idle"]]

---------------------------------------------------------------------------
(* utils/followup.py: track_email step by step. The SELECT and the INSERT *)
(* are two statements; another process may write between them            *)

InsertWithoutKey(table, row) ==
    [emails |-> Append(table, row), raised |-> "none"]

\* lines 41 and 97-117: INSERT INTO emails, recruiter_email being the
\* PRIMARY KEY: a second row for an address is refused
insert_row(table, row) ==
    IF RowsOf(table, row.recruiter_email) # {}
    THEN [emails |-> table, raised |-> "sqlite3.IntegrityError"]
    ELSE [emails |-> Append(table, row), raised |-> "none"]

\* lines 77-89: next_followup is computed and the address looked up
TrackSelect(p, recruiter_email, a) ==
    /\ tracking[p].pc \in {"idle", "done", "raised"}
    /\ nops < MaxOps
    /\ nops' = nops + 1
    /\ tracking' = [tracking EXCEPT ![p] =
                      [pc |-> "selected",
                       row |-> NewRow(recruiter_email, a, clock),
                       found |-> RowsOf(emails, recruiter_email) # {}]]
    /\ UNCHANGED <<clock, emails, last, mpc, pending, idx, should_schedule, events>>

\* lines 89-118: the warning, or the INSERT and the commit
TrackInsert(p) ==
    /\ tracking[p].pc = "selected"
    /\ IF tracking[p].found
       THEN /\ tracking' = [tracking EXCEPT ![p] = [pc |-> "done"]]
            /\ UNCHANGED emails
       ELSE LET ins == insert_row(emails, tracking[p].row)
            IN  /\ emails' = ins.emails
                /\ tracking' = [tracking EXCEPT ![p] =
                                  [pc |-> IF ins.raised = "none" THEN "done" ELSE "raised"]]
    /\ UNCHANGED <<clock, nops, last, mpc, pending, idx, should_schedule, events>>

---------------------------------------------------------------------------
(* Specifications *)

Init ==
    /\ SchedInit
    /\ days = ShippedDays
    /\ ParseIdle
    /\ FollowIdle
    /\ SendIdle
    /\ CronIdle
    /\ TrackIdle
    /\ ArgIdle

Next ==
    \E t \in Threads :
        \/ Enter(t) /\ UNCHANGED <<parseVars, followVars, sendVars, cronVars, trackVars, argVars>>
        \/ FindCurrent(t) /\ UNCHANGED <<parseVars, followVars, sendVars, cronVars, trackVars, argVars>>
        \/ FindNext(t) /\ UNCHANGED <<parseVars, followVars, sendVars, cronVars, trackVars, argVars>>

Spec == Init /\ [][Next]_vars

InitRanges ==
    /\ SchedInit
    /\ days \in DaySets
    /\ ParseIdle
    /\ FollowIdle
    /\ SendIdle
    /\ CronIdle
    /\ TrackIdle
    /\ ArgIdle

NextRanges ==
    \/ EnterWith(1) /\ UNCHANGED <<parseVars, followVars, sendVars, cronVars, trackVars, argVars>>
    \/ FindCurrent(1) /\ UNCHANGED <<parseVars, followVars, sendVars, cronVars, trackVars, argVars>>
    \/ FindNext(1) /\ UNCHANGED <<parseVars, followVars, sendVars, cronVars, trackVars, argVars>>

SpecRanges == InitRanges /\ [][NextRanges]_vars

InitParse ==
    /\ SchedIdle
    /\ ParseInit
    /\ FollowIdle
    /\ SendIdle
    /\ CronIdle
    /\ TrackIdle
    /\ ArgIdle

NextParse == Parse /\ UNCHANGED <<schedVars, followVars, sendVars, cronVars, trackVars, argVars>>

SpecParse == InitParse /\ [][NextParse]_vars

InitFollowup ==
    /\ SchedIdle
    /\ ParseIdle
    /\ FollowInit
    /\ SendIdle
    /\ CronIdle
    /\ TrackIdle
    /\ ArgIdle

NextFollowup ==
    \/ Tick /\ UNCHANGED <<schedVars, parseVars, sendVars, cronVars, trackVars, argVars>>
    \/ \E r \in Recruiters, a \in TrackArgs :
          TrackEmail(r, a) /\ UNCHANGED <<schedVars, parseVars, sendVars, cronVars, trackVars, argVars>>
    \/ GetPendingFollowups /\ UNCHANGED <<schedVars, parseVars, sendVars, cronVars, trackVars, argVars>>
    \/ \E r \in Recruiters :
          UpdateFollowupStatus(r) /\ UNCHANGED <<schedVars, parseVars, sendVars, cronVars, trackVars, argVars>>
    \/ \E r \in Recruiters :
          GetEmailStatus(r) /\ UNCHANGED <<schedVars, parseVars, sendVars, cronVars, trackVars, argVars>>
    \/ \E template_exists \in BOOLEAN, schedule \in BOOLEAN :
          MainStart(1, template_exists, schedule) /\ UNCHANGED <<schedVars, parseVars, sendVars, cronVars, trackVars, argVars>>
    \/ \E send_time \in SendTimes, draft \in GmailOutcomes,
          sent \in GmailOutcomes, streak \in StreakOutcomes :
          MainItem(1, send_time, draft, sent, streak) /\ UNCHANGED <<schedVars, parseVars, sendVars, cronVars, trackVars, argVars>>

SpecFollowup == InitFollowup /\ [][NextFollowup]_vars

InitCallers ==
    /\ SchedIdle
    /\ ParseIdle
    /\ FollowInit
    /\ SendInit
    /\ CronIdle
    /\ TrackIdle
    /\ ArgIdle

\* one address is tracked here: what a caller does with the send time
\* does not depend on the other records
NextCallers ==
    \/ Tick /\ UNCHANGED <<schedVars, parseVars, sendVars, cronVars, trackVars, argVars>>
    \/ \E a \in TrackArgs :
          TrackEmail("a@x.com", a) /\ UNCHANGED <<schedVars, parseVars, sendVars, cronVars, trackVars, argVars>>
    \/ \E template_exists \in BOOLEAN, schedule \in BOOLEAN :
          MainStart(1, template_exists, schedule)
            /\ UNCHANGED <<schedVars, parseVars, sendVars, cronVars, trackVars, argVars>>
    \/ \E send_time \in SendTimes, draft \in GmailOutcomes,
          sent \in GmailOutcomes, streak \in StreakOutcomes :
          MainItem(1, send_time, draft, sent, streak)
            /\ UNCHANGED <<schedVars, parseVars, sendVars, cronVars, trackVars, argVars>>
    \/ \E token \in BOOLEAN, csv_path \in BOOLEAN, exists \in BOOLEAN,
          send_time \in SendTimes, draft \in GmailOutcomes,
          streak \in StreakOutcomes :
          ScheduleSend(token, csv_path, exists, send_time, draft, streak)
            /\ UNCHANGED <<schedVars, parseVars, followVars, cronVars, trackVars, argVars>>

SpecCallers == InitCallers /\ [][NextCallers]_vars

\* track_email calls and runs of main, one process at a time: no call
\* comes while main is in its loop
InitRuns == InitFollowup

NextRuns ==
    \/ Tick /\ UNCHANGED <<schedVars, parseVars, sendVars, cronVars, trackVars, argVars>>
    \/ \E r \in Recruiters, a \in TrackArgs :
          /\ mpc[1] # "loop"
          /\ TrackEmail(r, a)
          /\ UNCHANGED <<schedVars, parseVars, sendVars, cronVars, trackVars, argVars>>
    \/ \E template_exists \in BOOLEAN, schedule \in BOOLEAN :
          MainStart(1, template_exists, schedule)
            /\ UNCHANGED <<schedVars, parseVars, sendVars, cronVars, trackVars, argVars>>
    \/ \E send_time \in SendTimes, draft \in GmailOutcomes,
          sent \in GmailOutcomes, streak \in StreakOutcomes :
          MainItem(1, send_time, draft, sent, streak)
            /\ UNCHANGED <<schedVars, parseVars, sendVars, cronVars, trackVars, argVars>>

SpecRuns == InitRuns /\ [][NextRuns]_vars

\* two processes run main on the same database, the daily cron job and a
\* run by hand, say
InitMains == InitFollowup

NextMains ==
    \/ Tick /\ UNCHANGED <<schedVars, parseVars, sendVars, cronVars, trackVars, argVars>>
    \/ \E r \in Recruiters, a \in TrackArgs :
          TrackEmail(r, a)
            /\ UNCHANGED <<schedVars, parseVars, sendVars, cronVars, trackVars, argVars>>
    \/ \E p \in Procs, template_exists \in BOOLEAN, schedule \in BOOLEAN :
          MainStart(p, template_exists, schedule)
            /\ UNCHANGED <<schedVars, parseVars, sendVars, cronVars, trackVars, argVars>>
    \/ \E p \in Procs, send_time \in SendTimes, draft \in GmailOutcomes,
          sent \in GmailOutcomes, streak \in StreakOutcomes :
          MainItem(p, send_time, draft, sent, streak)
            /\ UNCHANGED <<schedVars, parseVars, sendVars, cronVars, trackVars, argVars>>

SpecMains == InitMains /\ [][NextMains]_vars

\* two processes track addresses on the same database while follow-ups are
\* counted
InitTrack == InitFollowup

NextTrack ==
    \/ \E p \in Procs, r \in Recruiters, a \in TrackArgs :
          TrackSelect(p, r, a)
            /\ UNCHANGED <<schedVars, parseVars, sendVars, cronVars, argVars>>
    \/ \E p \in Procs :
          TrackInsert(p) /\ UNCHANGED <<schedVars, parseVars, sendVars, cronVars, argVars>>
    \/ \E r \in Recruiters :
          UpdateFollowupStatus(r)
            /\ UNCHANGED <<schedVars, parseVars, sendVars, cronVars, trackVars, argVars>>

SpecTrack == InitTrack /\ [][NextTrack]_vars

InitCron ==
    /\ SchedIdle
    /\ ParseIdle
    /\ FollowIdle
    /\ SendIdle
    /\ CronInit
    /\ TrackIdle
    /\ ArgIdle

NextCron ==
    \E p \in Procs :
        \/ \E system \in Systems, chmod_ok \in BOOLEAN, listed \in BOOLEAN :
              CronList(p, system, chmod_ok, listed)
                /\ UNCHANGED <<schedVars, parseVars, followVars, sendVars, trackVars, argVars>>
        \/ \E written \in WriteOutcomes :
              CronWrite(p, written)
                /\ UNCHANGED <<schedVars, parseVars, followVars, sendVars, trackVars, argVars>>

SpecCron == InitCron /\ [][NextCron]_vars

InitArgs ==
    /\ SchedIdle
    /\ ParseIdle
    /\ FollowIdle
    /\ SendIdle
    /\ CronIdle
    /\ TrackIdle
    /\ ArgInit

NextArgs ==
    GetArgOrEnv
      /\ UNCHANGED <<schedVars, parseVars, followVars, sendVars, cronVars, trackVars>>

SpecArgs == InitArgs /\ [][NextArgs]_vars

---------------------------------------------------------------------------
(* The weekly schedule the ranges are meant to realise *)

\* tests/test_schedule_helper.py, csv_data: the intervals of weekday d, as
\* (start, end) offsets into the day, in the order of the rows
csv_data(d) ==
    IF d \in 0 .. 3
    THEN << <<TimeOfDay(10, 0), TimeOfDay(11, 0)>>,
            <<TimeOfDay(14, 0), TimeOfDay(14, 30)>> >>
    ELSE IF d = 4
         THEN << <<TimeOfDay(10, 0), TimeOfDay(11, 0)>> >>
         ELSE <<>>

Schedule(d) == IF d \in days THEN csv_data(d) ELSE <<>>

Today == Schedule(weekday(now))

NowTime == time_of_day(now)

Done == pc[1] = "done"

InsideInterval ==
    \E i \in DOMAIN Today : Today[i][1] <= NowTime /\ NowTime < Today[i][2]

AtIntervalEnd == \E i \in DOMAIN Today : NowTime = Today[i][2]

Upcoming == {i \in DOMAIN Today : Today[i][1] > NowTime}

AfterToday == \A i \in DOMAIN Today : Today[i][2] <= NowTime

Following(k) == Schedule((weekday(now) + k) % 7)

FollowingDays == {k \in 1 .. 6 : Following(k) # <<>>}

\* result[1] is an instant of day number dt, within [iv[1], iv[2]] of that day
SentWithin(dt, iv) ==
    /\ result[1].kind = "datetime"
    /\ date(result[1].at) = dt
    /\ iv[1] <= time_of_day(result[1].at)
    /\ time_of_day(result[1].at) <= iv[2]

---------------------------------------------------------------------------
(* Claims *)

\* C1: whenever the local time t of the query satisfies start <= t < end
\* for an interval of the current weekday (t = start included), the query
\* returns True (send now), whatever later intervals exist.
C1_SendNowInsideInterval ==
    (Done /\ InsideInterval) => result[1] = SendNow

C1_Witness ==
    /\ Done
    /\ \E i \in DOMAIN Today : NowTime = Today[i][1]
    /\ Upcoming # {}
    /\ result[1] = SendNow

\* C2: at an instant equal to the end of an interval the query does not
\* return True on account of that interval: it finds no current range and
\* goes on to a range that starts later.
C2_EndIsPast ==
    (Done /\ AtIntervalEnd /\ ~InsideInterval) =>
        /\ result[1] # SendNow
        /\ current_range[1] = None
        /\ result[1].kind = "datetime"
        /\ next_range[1][1] > now

C2_Witness ==
    /\ Done
    /\ AtIntervalEnd
    /\ Upcoming # {}
    /\ result[1].kind = "datetime"

\* C3: after all of today's intervals, when tomorrow has an interval, the
\* query returns an instant t dated tomorrow with s2 <= time_of_day(t) <= e2
\* for an interval [s2, e2) of tomorrow (the draw includes the end).
C3_TomorrowInclusive ==
    (Done /\ AfterToday /\ Following(1) # <<>>) =>
        \E i \in DOMAIN Following(1) : SentWithin(date(now) + 1, Following(1)[i])

C3_Witness ==
    /\ Done
    /\ Today # <<>>
    /\ AfterToday
    /\ Following(1) # <<>>
    /\ result[1].kind = "datetime"
    /\ date(result[1].at) = date(now) + 1
    /\ time_of_day(result[1].at) = Following(1)[1][2]

\* C4 (as claimed): a returned instant satisfies start <= result < end for
\* the chosen next range, strictly before the end of the window.
C4_StrictlyBeforeEnd ==
    (Done /\ result[1].kind = "datetime") =>
        /\ next_range[1][1] <= result[1].at
        /\ result[1].at < next_range[1][2]

\* C5: outside every interval of today while today still has an interval
\* starting after now, the query takes the earliest such interval of today
\* and returns an instant dated today inside it; no later day is chosen.
C5_EarliestUpcomingToday ==
    (Done /\ ~InsideInterval /\ Upcoming # {}) =>
        LET iv == Today[Min(Upcoming)]
            midnight == now - NowTime
        IN  /\ \A i \in Upcoming : iv[1] <= Today[i][1]
            /\ SentWithin(date(now), iv)
            /\ next_range[1] = <<midnight + iv[1], midnight + iv[2]>>

C5_Witness ==
    /\ Done
    /\ ~InsideInterval
    /\ Upcoming # {}
    /\ weekday(now) = 4
    /\ result[1].kind = "datetime"
    /\ date(result[1].at) = date(now)

\* C6: with no current or upcoming interval today, the query takes the
\* first interval of the nearest following weekday that has one, wrapping
\* from Sunday to Monday and skipping empty days, dated today plus the days
\* scanned and later than now.
C6_NearestFollowingDay ==
    (Done /\ ~InsideInterval /\ Upcoming = {} /\ FollowingDays # {}) =>
        LET k == Min(FollowingDays)
        IN  /\ SentWithin(date(now) + k, Following(k)[1])
            /\ result[1].at > now

C6_Witness ==
    /\ Done
    /\ days = {0}
    /\ weekday(now) = 4
    /\ NowTime >= TimeOfDay(18, 0)
    /\ result[1].kind = "datetime"
    /\ date(result[1].at) = date(now) + 3
    /\ weekday(result[1].at) = 0

\* C7 (as claimed): for a schedule with no interval on any weekday the
\* query returns False (no window available) for every instant, and neither
\* raises nor returns an instant.
C7_EmptyScheduleNoWindow ==
    (Done /\ days = {}) => result[1] = NoWindowAvailable

\* C8 (as claimed): for every well-formed schedule and instant the query
\* ends without raising, with one of True, an instant or False; the search
\* for the next range never indexes an empty list.
C8_NeverRaises ==
    Done => result[1].kind \in {"True", "datetime", "False"}

\* C9: a query has no side effects: two queries for the same clock reading,
\* in any interleaving, leave the list of ranges they work on as it was
\* built and agree on the kind of decision and on the range chosen; only
\* the instant drawn inside the range may differ.
C9_QueryIsPure ==
    /\ \A t \in Threads :
          pc[t] # "idle" => allowed_ranges[t] = get_allowed_date_ranges(now)
    /\ (pc[1] = "done" /\ pc[2] = "done") =>
          /\ result[1].kind = result[2].kind
          /\ current_range[1] = current_range[2]
          /\ next_range[1] = next_range[2]

C9_Witness ==
    /\ pc[1] = "done"
    /\ pc[2] = "done"
    /\ result[1].kind = "datetime"
    /\ result[2].kind = "datetime"
    /\ result[1].at # result[2].at
    /\ next_range[1] = next_range[2]

IntervalOf(row) == <<ParseTime(row.START_TIME), ParseTime(row.END_TIME)>>

\* C10: the parser returns exactly 7 buckets, Monday first; the bucket of
\* day d holds exactly the intervals of the rows whose day index is d, in
\* ascending order of start time, and is empty when no row names d.
C10_SevenSortedBuckets ==
    parsed =>
        /\ Len(day_ranges) = 7
        /\ \A d \in 0 .. 6 :
              LET bucket == day_ranges[d + 1]
                  mine == {i \in DOMAIN rows : ParseDay(rows[i].DAY) = d}
              IN  /\ Len(bucket) = Cardinality(mine)
                  /\ \A i \in mine :
                        Cardinality({j \in DOMAIN bucket : bucket[j] = IntervalOf(rows[i])})
                          = Cardinality({j \in mine : IntervalOf(rows[j]) = IntervalOf(rows[i])})
                  /\ \A j \in 1 .. (Len(bucket) - 1) :
                        TimeKey(bucket[j][1]) <= TimeKey(bucket[j + 1][1])
                  /\ (mine = {}) => bucket = <<>>

C10_Witness ==
    /\ parsed
    /\ Len(rows) = 2
    /\ ParseDay(rows[1].DAY) = 0
    /\ ParseDay(rows[2].DAY) = 0
    /\ TimeKey(ParseTime(rows[1].START_TIME)) > TimeKey(ParseTime(rows[2].START_TIME))
    /\ day_ranges[1] = << <<[hour |-> 9, minute |-> 0], [hour |-> 12, minute |-> 0]>>,
                          <<[hour |-> 13, minute |-> 0], [hour |-> 15, minute |-> 0]>> >>
    /\ day_ranges[7] = <<>>

---------------------------------------------------------------------------
(* Claims on the follow-up tracking *)

\* the row of an address in the table now, and before the latest call
RowNow(recruiter_email) == get_email_status(emails, recruiter_email)

RowBefore(recruiter_email) == get_email_status(last.table, recruiter_email)

LastIs(op) == last.op = op

\* the rows of a sequence, as a set
Range(f) == {f[i] : i \in DOMAIN f}

\* the rows of the other addresses are where and what they were
OthersUnchanged(recruiter_email) ==
    /\ Len(emails) >= Len(last.table)
    /\ \A i \in DOMAIN last.table :
         last.table[i].recruiter_email # recruiter_email => emails[i] = last.table[i]

\* C14: track_email for an address not yet tracked creates exactly one
\* record, with the name, company, thread id, max_followups,
\* followup_wait_days and timezone given, followup_count 0 and next_followup
\* the time of the call plus followup_wait_days
C14_TrackNewCreatesRecord ==
    (LastIs("track_email") /\ RowBefore(last.recruiter_email).kind = "None") =>
        /\ Len(emails) = Len(last.table) + 1
        /\ Cardinality(RowsOf(emails, last.recruiter_email)) = 1
        /\ OthersUnchanged(last.recruiter_email)
        /\ RowNow(last.recruiter_email).kind = "dict"
        /\ LET row == RowNow(last.recruiter_email).row
           IN  /\ row.recruiter_name = last.args.recruiter_name
               /\ row.recruiter_company = last.args.recruiter_company
               /\ row.thread_id = last.args.thread_id
               /\ row.max_followups = last.args.max_followups
               /\ row.followup_wait_days = last.args.followup_wait_days
               /\ row.timezone = last.args.timezone
               /\ row.followup_count = 0
               /\ row.next_followup = last.at + last.args.followup_wait_days

\* a second address tracked on a later day
C14_Witness ==
    /\ LastIs("track_email")
    /\ RowBefore(last.recruiter_email).kind = "None"
    /\ Len(last.table) = 1
    /\ last.at > 0
    /\ last.args.followup_wait_days = 2

\* C15: track_email for an address already tracked leaves the record as it
\* was, whatever the arguments of the second call
C15_TrackExistingUnchanged ==
    (LastIs("track_email") /\ RowBefore(last.recruiter_email).kind = "dict") =>
        /\ Len(emails) = Len(last.table)
        /\ RowNow(last.recruiter_email) = RowBefore(last.recruiter_email)

\* the second call comes a day later with other arguments for every field,
\* after a follow-up has been counted
C15_Witness ==
    /\ LastIs("track_email")
    /\ RowBefore(last.recruiter_email).kind = "dict"
    /\ LET row == RowBefore(last.recruiter_email).row
       IN  /\ row.followup_count = 1
           /\ last.at + last.args.followup_wait_days # row.next_followup
           /\ last.args.recruiter_name # row.recruiter_name
           /\ last.args.thread_id # row.thread_id
           /\ last.args.max_followups # row.max_followups

\* C16: get_pending_followups returns exactly the records whose
\* next_followup is at or before now and whose followup_count is below
\* their max_followups
C16_PendingExactlyDue ==
    LastIs("get_pending_followups") =>
        /\ Range(last.ret)
             = {row \in Range(emails) :
                  /\ row.next_followup <= last.at
                  /\ row.followup_count < row.max_followups}
        /\ Len(last.ret) = Cardinality(Range(last.ret))

\* one record is returned, one is due but used up, so left out
C16_Witness ==
    /\ LastIs("get_pending_followups")
    /\ Len(last.ret) = 1
    /\ \E row \in Range(emails) :
         /\ row.next_followup <= last.at
         /\ row.followup_count = row.max_followups

\* C17: update_followup_status on a tracked address adds one to
\* followup_count, sets next_followup to now plus the record's own
\* followup_wait_days, and changes no other field and no other record
C17_UpdateAdvances ==
    (LastIs("update_followup_status") /\ RowBefore(last.recruiter_email).kind = "dict") =>
        /\ Len(emails) = Len(last.table)
        /\ OthersUnchanged(last.recruiter_email)
        /\ LET row == RowBefore(last.recruiter_email).row
           IN  RowNow(last.recruiter_email)
                 = [kind |-> "dict",
                    row |-> [row EXCEPT
                               !.followup_count = @ + 1,
                               !.next_followup = last.at + row.followup_wait_days]]

\* the record is updated on a later day than its next_followup, and the
\* other record of the table waits longer
C17_Witness ==
    /\ LastIs("update_followup_status")
    /\ RowBefore(last.recruiter_email).kind = "dict"
    /\ last.at > RowBefore(last.recruiter_email).row.next_followup
    /\ \E row \in Range(emails) :
         row.followup_wait_days # RowBefore(last.recruiter_email).row.followup_wait_days

\* C18: update_followup_status on an address that is not tracked changes
\* nothing in the store, logs the warning exactly once and returns; a
\* lookup of the address gives None
C18_UpdateUntrackedWarns ==
    (LastIs("update_followup_status") /\ RowBefore(last.recruiter_email).kind = "None") =>
        /\ emails = last.table
        /\ RowNow(last.recruiter_email) = [kind |-> "None"]
        /\ last.warnings = 1
        /\ last.returned

\* the other address is tracked when the update comes
C18_Witness ==
    /\ LastIs("update_followup_status")
    /\ RowBefore(last.recruiter_email).kind = "None"
    /\ Len(last.table) = 1

---------------------------------------------------------------------------
(* Claims on the run of send_followups.main *)

\* the positions in the log of process p of the calls named for an address
CallsOf(p, recruiter_email, names) ==
    {i \in DOMAIN events[p] :
       /\ events[p][i][1] = recruiter_email
       /\ events[p][i][2] \in names}

DeliveryCalls == {"save_draft", "send_now", "schedule_send_later"}

\* the delivery calls for an address that gave a draft, a sent message or
\* a scheduled send
Delivered(p, recruiter_email) ==
    {i \in CallsOf(p, recruiter_email, DeliveryCalls) :
       events[p][i][3] \in {"dict", "True"}}

UpdateCalls(p, recruiter_email) ==
    CallsOf(p, recruiter_email, {"update_followup_status"})

\* C19: in one run of main, update_followup_status is called exactly once
\* for each pending follow-up that was drafted, sent or scheduled, and only
\* after the draft, send or schedule call for that recruiter; with nothing
\* pending main returns before it saves, sends or updates anything
C19_UpdateOnceAfterDelivery ==
    /\ \A r \in Recruiters :
         /\ Cardinality(UpdateCalls(1, r)) <= 1
         /\ Delivered(1, r) # {} => Cardinality(UpdateCalls(1, r)) = 1
         /\ \A u \in UpdateCalls(1, r) :
              /\ CallsOf(1, r, DeliveryCalls) # {}
              /\ \A d \in CallsOf(1, r, DeliveryCalls) : d < u
    /\ mpc[1] = "returned" =>
         /\ pending[1] = <<>>
         /\ \A r \in Recruiters :
              CallsOf(1, r, DeliveryCalls \cup {"update_followup_status"}) = {}

\* the same holds of the runs that no exception ended
UpdateOnceUnlessRaised ==
    mpc[1] # "raised" => C19_UpdateOnceAfterDelivery

---------------------------------------------------------------------------
(* Claims on what the callers do with the resolver's answer *)

\* the positions in the log of process p where the resolver answered v
Answered(p, v) ==
    {i \in DOMAIN events[p] :
       events[p][i][2] = "get_scheduled_send_time" /\ events[p][i][3] = v}

\* the names of the calls schedule_send made
NamesOf(calls) == {calls[i][1] : i \in DOMAIN calls}

\* schedule_send asked the resolver and was answered v
ScheduleSendAnswered(v) ==
    \E i \in DOMAIN ss.calls : ss.calls[i] = <<"get_scheduled_send_time", v>>

\* main sends at once when the resolver answers True
MainSendsNow ==
    \A i \in Answered(1, "True") :
        /\ i + 1 \in DOMAIN events[1]
        /\ events[1][i + 1][1] = events[1][i][1]
        /\ events[1][i + 1][2] = "send_now"
        /\ CallsOf(1, events[1][i][1], {"save_draft", "schedule_send_later"}) = {}

\* C12 as stated: whenever the resolver returns True, every caller,
\* send_followups.main and automate_emails.schedule_send, sends the message
\* at once rather than deferring it
C12_SendNowImmediate ==
    /\ MainSendsNow
    /\ ScheduleSendAnswered("True") =>
         /\ "send_now" \in NamesOf(ss.calls)
         /\ "schedule_send_later" \notin NamesOf(ss.calls)

\* C12 as the code has it: on True main sends at once, while schedule_send
\* sends nothing itself and schedules the draft with Streak for 10 minutes
\* from now
C12_SendNowPerCaller ==
    /\ MainSendsNow
    /\ ScheduleSendAnswered("True") =>
         /\ "send_now" \notin NamesOf(ss.calls)
         /\ ss.ret # "TypeError" =>
              \E i \in DOMAIN ss.calls :
                  ss.calls[i] = <<"schedule_send_later",
                                  [kind |-> "datetime", from |-> "now", minutes |-> 10]>>

\* both callers were answered True: main sent, schedule_send got its
\* request through
C12_Witness ==
    /\ Answered(1, "True") # {}
    /\ ScheduleSendAnswered("True")
    /\ ss.ret = "True"
    /\ "requests.post" \in NamesOf(ss.calls)

\* C13: whenever the resolver returns False, the caller logs a scheduling
\* failure and neither sends nor schedules; main moreover does not call
\* update_followup_status, so the record stays pending
C13_NoWindowReported ==
    /\ \A i \in Answered(1, "False") :
         LET r == events[1][i][1]
         IN  /\ i + 1 \in DOMAIN events[1]
             /\ events[1][i + 1] = <<r, "logger.error", "Failed to schedule follow-up email">>
             /\ CallsOf(1, r, DeliveryCalls \cup {"update_followup_status"}) = {}
             /\ \E row \in Range(get_pending_followups(emails, clock)) :
                  row.recruiter_email = r
    /\ ScheduleSendAnswered("False") =>
         /\ "logger.error" \in NamesOf(ss.calls)
         /\ "requests.post" \notin NamesOf(ss.calls)
         /\ ss.ret = "False"

\* main alone does report the failure and leaves the record pending
MainReportsNoWindow ==
    ScheduleSendAnswered("False") \/ C13_NoWindowReported

---------------------------------------------------------------------------
(* Claims on the cron job *)

Succeeded(p) == cron[p].pc = "done" /\ cron[p].ret = "True"

\* C20: setup_cron_job is idempotent on the crontab: with the follow-up
\* line in the crontab it listed, it returns True without writing, so
\* after any number of successful calls the line is in the crontab exactly
\* once
C20_CronLineOnce ==
    /\ \A p \in Procs :
         (cron[p].pc = "done" /\ job_exists(cron[p].existing_crontab)) =>
             cron[p].ret = "True" /\ cron[p].writes = 0
    /\ (\E p \in Procs : Succeeded(p)) => Occurrences(crontab) = 1

\* a call added the line after the user's entry, the call after it found
\* the line and wrote nothing
C20_Witness ==
    /\ crontab = <<"other", "cron_line">>
    /\ Succeeded(1) /\ cron[1].writes = 1
    /\ Succeeded(2) /\ cron[2].writes = 0
    /\ job_exists(cron[2].existing_crontab)

---------------------------------------------------------------------------
(* Claims on the Streak request *)

\* the requests schedule_send_later made in the latest schedule_send
Requests == {i \in DOMAIN ss.calls : ss.calls[i][1] = "requests.post"}

\* C21: schedule_send_later returns True exactly when the request came
\* back with an ok response, and returns False, without raising, on every
\* failure of the request: a response that is not ok and a network error
C21_FalseOnEveryFailure ==
    \A i \in Requests :
        /\ ss.ret \in {"True", "False"}
        /\ ss.ret = "True" <=> ss.calls[i][3] = "True"

\* with an answer, ok or not, the return value is as claimed
FalseOnBadResponse ==
    \A i \in Requests :
        ss.calls[i][3] # "RequestException" =>
            /\ ss.ret \in {"True", "False"}
            /\ ss.ret = "True" <=> ss.calls[i][3] = "True"

\* what schedule_send logs for the first of its arguments that is missing
MissingArgument ==
    IF ~ss_args.streak_token THEN "Scheduling error: No streak token provided."
    ELSE IF ~ss_args.csv_path THEN "Scheduling error: No schedule csv file provided."
    ELSE IF ~ss_args.exists THEN "Scheduling Error: No schedule csv file found."
    ELSE "none"

\* C22: schedule_send returns False and makes no Streak request when no
\* token is given, when no CSV path is given, or when the CSV file does not
\* exist; the checks come in that order, and the resolver is not queried
C22_ChecksBeforeScheduling ==
    (ss.ret # "none" /\ MissingArgument # "none") =>
        /\ ss.ret = "False"
        /\ ss.calls = <<<<"logger.error", MissingArgument>>>>
        /\ Requests = {}
        /\ ~ \E v \in SendTimes : ScheduleSendAnswered(v)

\* a call with neither token nor path: the token is what is reported
C22_Witness ==
    /\ ss.ret = "False"
    /\ ~ss_args.streak_token /\ ~ss_args.csv_path
    /\ ss.calls[1][2] = "Scheduling error: No streak token provided."

---------------------------------------------------------------------------
(* Claims on the arguments *)

Called == ga_out # NotCalled

\* C23: get_arg_or_env gives the command-line argument if it is not None,
\* else the environment variable if it is set, else ValueError if required,
\* else the default: a set variable is never overridden by the default and
\* a given argument never by the environment
C23_StrictPrecedence ==
    Called =>
        /\ ga_in.arg_value # NoneValue => ga_out = [ret |-> ga_in.arg_value]
        /\ (ga_in.arg_value = NoneValue /\ ga_in.env # NoneValue) =>
               ga_out = [ret |-> ga_in.env]
        /\ (ga_in.arg_value = NoneValue /\ ga_in.env = NoneValue /\ ga_in.required) =>
               ga_out = [raised |-> "ValueError"]
        /\ (ga_in.arg_value = NoneValue /\ ga_in.env = NoneValue /\ ~ga_in.required) =>
               ga_out = [ret |-> ga_in.default]

\* an empty argument given while the variable is set and a default exists
C23_Witness ==
    /\ Called
    /\ ga_in.arg_value = Str("")
    /\ ga_in.env = Str("from the environment")
    /\ ga_in.default = Str("the default")
    /\ ga_in.required
    /\ ga_out = [ret |-> Str("")]

---------------------------------------------------------------------------
(* Claims on the instant of a deferred send *)

\* C24: every SendAt instant the resolver returns is strictly later than
\* the instant it was computed from; no send is scheduled for the past or
\* for the present moment
C24_SendAtIsLater ==
    result[1].kind = "datetime" => result[1].at > now

\* the nearest case: the window opens at the next instant and the draw is 0
C24_Witness ==
    /\ result[1].kind = "datetime"
    /\ next_range[1] # None
    /\ result[1].at = next_range[1][1]
    /\ result[1].at = now + 1

---------------------------------------------------------------------------
(* The resolver over a weekly schedule: the scan of today's intervals and *)
(* then of the following weekdays in circular order                       *)

WeeklySchedule == [d \in 0 .. 6 |-> csv_data(d)]

\* the decision for a query on weekday wd at time of day t
scan_weekly_schedule(schedule, wd, t) ==
    LET today == schedule[wd]
        current == {i \in DOMAIN today : today[i][1] <= t /\ t < today[i][2]}
        upcoming == {i \in DOMAIN today : today[i][1] > t}
        later == {k \in 1 .. 6 : schedule[(wd + k) % 7] # <<>>}
    IN  IF current # {} THEN [kind |-> "SendNow"]
        ELSE IF upcoming # {}
        THEN [kind |-> "SendAt", interval |-> today[Min(upcoming)], days_added |-> 0]
        ELSE IF later # {}
        THEN [kind |-> "SendAt",
              interval |-> schedule[(wd + Min(later)) % 7][1],
              days_added |-> Min(later)]
        ELSE [kind |-> "NoWindowAvailable"]

\* the query of thread th ended as the scan decides for its instant
AgreesWithScan(th) ==
    LET d == scan_weekly_schedule(WeeklySchedule, weekday(now), time_of_day(now))
        day == (date(now) + d.days_added) * DayLen
    IN  /\ d.kind # "NoWindowAvailable"
        /\ d.kind = "SendNow" <=> result[th] = SendNow
        /\ d.kind = "SendAt" =>
             /\ result[th].kind = "datetime"
             /\ next_range[th] = <<day + d.interval[1], day + d.interval[2]>>
             /\ date(result[th].at) = date(now) + d.days_added

\* C25: for the shipped schedule the source's resolver, which expands this
\* week and the next into dated ranges and takes the earliest starting
\* after now, gives for every weekday and time of day the decision, the
\* interval and the date of the circular scan over the weekly schedule
C25_SameAsCircularScan ==
    \A th \in Threads : pc[th] = "done" => AgreesWithScan(th)

\* a query on Friday after the window: the scan wraps to Monday, three days
\* on, and so does the resolver
C25_Witness ==
    /\ pc[1] = "done"
    /\ weekday(now) = 4
    /\ time_of_day(now) >= TimeOfDay(11, 0)
    /\ scan_weekly_schedule(WeeklySchedule, weekday(now), time_of_day(now)).days_added = 3
    /\ date(result[1].at) = date(now) + 3

---------------------------------------------------------------------------
(* Claims on the number of follow-ups *)

WithinMax ==
    \A i \in DOMAIN emails : emails[i].followup_count <= emails[i].max_followups

CountsGrow ==
    /\ Len(emails') >= Len(emails)
    /\ \A i \in DOMAIN emails :
         /\ emails'[i].recruiter_email = emails[i].recruiter_email
         /\ emails'[i].followup_count >= emails[i].followup_count

\* C26: after any sequence of track_email calls and complete runs of main,
\* one process at a time, every record has followup_count <= max_followups,
\* and no followup_count ever decreases
C26_NeverBeyondMax == [](WithinMax) /\ [][CountsGrow]_vars

\* a record has had all its follow-ups and is due again; main ran and found
\* nothing pending
C26_Witness ==
    /\ mpc[1] = "returned"
    /\ \E i \in DOMAIN emails :
         /\ emails[i].followup_count = emails[i].max_followups
         /\ emails[i].next_followup <= clock

\* the delivery calls for an address that reported a failure
Failed(p, recruiter_email) ==
    {i \in CallsOf(p, recruiter_email, DeliveryCalls) : events[p][i][3] = "False"}

\* C27: main increases a recruiter's followup_count only if the follow-up
\* was delivered: when save_draft or send_now returns False, or
\* schedule_send_later reports failure, update_followup_status is not
\* called for that recruiter and the record stays pending
C27_UpdateOnlyIfDelivered ==
    \A r \in Recruiters :
        Failed(1, r) # {} =>
            /\ UpdateCalls(1, r) = {}
            /\ \E row \in Range(get_pending_followups(emails, clock)) :
                 row.recruiter_email = r

\* the row of an address in the pending follow-ups process p fetched
PendingRow(p, recruiter_email) ==
    {pending[p][i] : i \in {j \in DOMAIN pending[p] :
                              pending[p][j].recruiter_email = recruiter_email}}

\* both processes handled the address from one and the same pending state
BothFollowedUp(recruiter_email) ==
    /\ CallsOf(1, recruiter_email, DeliveryCalls) # {}
    /\ CallsOf(2, recruiter_email, DeliveryCalls) # {}
    /\ PendingRow(1, recruiter_email) = PendingRow(2, recruiter_email)

\* C28: when two main processes run concurrently on one database, each due
\* record is followed up at most once for that due date: the two never
\* both send a follow-up for one recruiter from the same pending state, and
\* followup_count never exceeds max_followups
C28_OncePerDueDate ==
    /\ \A r \in Recruiters : ~BothFollowedUp(r)
    /\ WithinMax

---------------------------------------------------------------------------
(* Claims on the records of the database *)

OneRecordEach ==
    \A r \in Recruiters : Cardinality(RowsOf(emails, r)) <= 1

NothingDeleted ==
    /\ Len(emails') >= Len(emails)
    /\ \A i \in DOMAIN emails : emails'[i].recruiter_email = emails[i].recruiter_email

\* C29: the database never holds more than one record for a
\* recruiter_email, also when two track_email calls for one address
\* interleave between the lookup and the insert; no operation of
\* FollowupManager deletes a record
C29_OneRecordPerAddress == [](OneRecordEach) /\ [][NothingDeleted]_vars

\* both calls found the address untracked; the insert of the second was
\* refused
C29_Witness ==
    /\ tracking[1].pc = "done"
    /\ tracking[2].pc = "raised"
    /\ Len(emails) = 1

---------------------------------------------------------------------------
(* Claims on the entries of the crontab *)

EntriesKept ==
    \A i \in DOMAIN crontab : i \in DOMAIN crontab' /\ crontab'[i] = crontab[i]

\* C30: setup_cron_job never removes or alters the entries the crontab had
\* before the call: what it writes is the crontab as it was followed by the
\* follow-up line, whatever the listing gave, a failed listing included; on
\* an unsupported platform or a failed chmod the crontab is not touched
C30_EntriesKept == [][EntriesKept]_vars

\* a write that follows a listing which gave the crontab as it is keeps the
\* entries
EntriesKeptWhenListed ==
    [][(\A p \in Procs : cron[p].pc = "listed" =>
            cron[p].existing_crontab = crontab) => EntriesKept]_vars

===========================================================================
